---- MODULE Spec2Model ----
(***************************************************************************)
(* FinishLynx receiver of the LED track sign (modes/Lynx_receiver.py).     *)
(*                                                                         *)
(* The receiver thread (Receiver._run_udp or Receiver._run_tcp) frames     *)
(* what the peers send into lines and puts them on the queue Receiver.q;   *)
(* the main loop (main) drains the                                         *)
(* queue through apply_message into the display State, advances the        *)
(* result rotation, renders and sleeps.                                    *)
(*                                                                         *)
(* Text is modelled by TLA+ strings, read character by character with      *)
(* SubSeq, so parse_csv_line, strip, upper and splitlines are computed as  *)
(* the Python code computes them.                                          *)
(***************************************************************************)
EXTENDS Integers, Sequences, FiniteSets, TLC

\* ------------------------------------------------------------------ bounds

\* Datagrams the peer sends in free mode.
MaxSent == 2
\* SR lines of the results page the peer sends in page mode.
PageLen == 17
\* The rotation steps after which the main loop is followed no further.
MaxIndex == 3
\* The rotation interval (args.result_rotate_sec) in units of the frame delay.
RotateTicks == 2
\* The most one sleep (plus a slow render) advances the wall clock.
MaxElapse == 2
\* TCP connections the peers open.
MaxConns == 2
\* TCP connections that a peer closes or that are reset.
MaxEnds == 1
\* Fields after the tag in the lines of csv mode.
MaxFields == 2
\* The largest time entered for the manual clock, in seconds.
MaxStart == 2
\* The value after which a count-up clock is followed no further, in seconds.
MaxCur == 3
\* The longest the manual clock goes without counting, in clock units.
MaxSince == 4

\* -------------------------------------------------------- program constants

\* st.results[-16:], st.results_names[-16:]
ResultsCap == 16

\* timer_modes: DIR_UP, DIR_DOWN = 1, -1
DIR_UP == 1
DIR_DOWN == -1

\* collect_hhmmss returned None (the entry was cancelled with ESC)
NoStart == -1

\* Clock units in one second of time.monotonic(): the clock of run_clock is
\* followed in half seconds.
UnitsPerSecond == 2


\* ------------------------------------------------------------ text helpers
\* A loop over the characters of a text is written as a recursion that halves
\* the text, so its depth grows with the logarithm of the length.

CharAt(s, i) == SubSeq(s, i, i)

LowerLetters == "abcdefghijklmnopqrstuvwxyz"
UpperLetters == "ABCDEFGHIJKLMNOPQRSTUVWXYZ"

\* str.upper() on one character
UpperChar(c) ==
    IF \E i \in 1..Len(LowerLetters) : CharAt(LowerLetters, i) = c
    THEN CharAt(UpperLetters, CHOOSE i \in 1..Len(LowerLetters) : CharAt(LowerLetters, i) = c)
    ELSE c

RECURSIVE upper(_)
\* str.upper()
upper(s) ==
    IF Len(s) = 0 THEN ""
    ELSE IF Len(s) = 1 THEN UpperChar(s)
    ELSE LET mid == Len(s) \div 2 IN
         upper(SubSeq(s, 1, mid)) \o upper(SubSeq(s, mid + 1, Len(s)))

\* the characters str.strip() removes
Whitespace == {" ", "\t", "\n", "\r"}

\* str.strip()
strip(s) ==
    LET keep == {i \in 1..Len(s) : CharAt(s, i) \notin Whitespace} IN
    IF keep = {} THEN ""
    ELSE SubSeq(s, CHOOSE i \in keep : \A j \in keep : i <= j,
                   CHOOSE i \in keep : \A j \in keep : i >= j)

\* (mutant) every comma ends a field, inside quotes too
parse_csv_step_every_comma(line, p, i) ==
    LET c == CharAt(line, i) IN
    IF p.skip THEN [p EXCEPT !.skip = FALSE]
    ELSE IF c = "\""
         THEN IF p.in_quotes /\ i + 1 <= Len(line) /\ CharAt(line, i + 1) = "\""
              THEN [p EXCEPT !.field = @ \o "\"", !.skip = TRUE]
              ELSE [p EXCEPT !.in_quotes = ~@]
         ELSE IF c = ","
              THEN [p EXCEPT !.out = Append(@, strip(p.field)), !.field = ""]
              ELSE [p EXCEPT !.field = @ \o c]

\* One pass of the while loop of parse_csv_line at character i (1-based here,
\* 0-based in the code). p.skip stands for the extra i += 1 after a doubled quote.
parse_csv_step(line, p, i) ==
    LET c == CharAt(line, i) IN
    IF p.skip THEN [p EXCEPT !.skip = FALSE]
    ELSE IF c = "\""
         THEN IF p.in_quotes /\ i + 1 <= Len(line) /\ CharAt(line, i + 1) = "\""
              THEN [p EXCEPT !.field = @ \o "\"", !.skip = TRUE]
              ELSE [p EXCEPT !.in_quotes = ~@]
         ELSE IF c = "," /\ ~p.in_quotes
              THEN [p EXCEPT !.out = Append(@, strip(p.field)), !.field = ""]
              ELSE [p EXCEPT !.field = @ \o c]

RECURSIVE parse_csv_loop(_, _, _, _)
\* the while loop of parse_csv_line over the characters lo..hi, p its variables
\* before character lo (the test on half only makes TLC finish the first half
\* of the characters before it starts on the second)
parse_csv_loop(line, p, lo, hi) ==
    IF lo > hi THEN p
    ELSE IF lo = hi THEN parse_csv_step(line, p, lo)
    ELSE LET mid  == (lo + hi) \div 2
             half == parse_csv_loop(line, p, lo, mid)
         IN  IF half.skip \in BOOLEAN
             THEN parse_csv_loop(line, half, mid + 1, hi)
             ELSE half

\* (mutant) a strict decoder: a line that ends inside quotes yields no fields
parse_csv_line_strict(line) ==
    LET p == parse_csv_loop(line, [out |-> <<>>, field |-> "", in_quotes |-> FALSE,
                                   skip |-> FALSE], 1, Len(line))
    IN  IF p.in_quotes THEN <<>> ELSE Append(p.out, strip(p.field))

\* parse_csv_line
parse_csv_line(line) ==
    LET p == parse_csv_loop(line, [out |-> <<>>, field |-> "", in_quotes |-> FALSE,
                                   skip |-> FALSE], 1, Len(line))
    IN  Append(p.out, strip(p.field))

\* where the first line of s ends: the index of its line break, Len(s) + 1 without one
line_end(s) ==
    LET brk == {i \in 1..Len(s) : CharAt(s, i) \in {"\n", "\r"}} IN
    IF brk = {} THEN Len(s) + 1 ELSE CHOOSE i \in brk : \A j \in brk : i <= j

RECURSIVE splitlines(_)
\* str.splitlines(): breaks at \n, \r and \r\n, no empty last line
splitlines(s) ==
    IF s = "" THEN <<>>
    ELSE LET e    == line_end(s)
             crlf == e < Len(s) /\ CharAt(s, e) = "\r" /\ CharAt(s, e + 1) = "\n"
             next == IF crlf THEN e + 2 ELSE e + 1
         IN  <<SubSeq(s, 1, e - 1)>> \o splitlines(SubSeq(s, next, Len(s)))

\* The model writes an undecodable byte as this character.
BadByte == "?"

RECURSIVE decode(_)
\* bytes.decode(errors='ignore'): undecodable bytes are dropped
decode(data) ==
    IF Len(data) = 0 THEN ""
    ELSE IF Len(data) = 1 THEN (IF data = BadByte THEN "" ELSE data)
    ELSE LET mid == Len(data) \div 2 IN
         decode(SubSeq(data, 1, mid)) \o decode(SubSeq(data, mid + 1, Len(data)))

\* ------------------------------------------------------------------ State

\* State.__init__
InitState ==
    [event |-> "", heat |-> "", clock |-> "0:00", mode |-> "HEADER",
     results |-> <<>>, results_names |-> <<>>, result_index |-> 0]

\* (mutant) a clear that forgets to reset the rotation index
clear_keeps_index(st) == [InitState EXCEPT !.result_index = st.result_index]

\* State.clear
clear(st) == InitState

\* parts[k] if len(parts) > k else dflt   (k is the code's 0-based index)
Part(parts, k, dflt) == IF Len(parts) > k THEN parts[k + 1] ELSE dflt

\* (mutant) xs[:16]: keeps the oldest entries
LastCap_oldest(xs) == IF Len(xs) > ResultsCap THEN SubSeq(xs, 1, ResultsCap) ELSE xs

\* xs[-16:]
LastCap(xs) ==
    IF Len(xs) > ResultsCap THEN SubSeq(xs, Len(xs) - ResultsCap + 1, Len(xs)) ELSE xs

\* no line applied (lines are numbered from 1)
NoLine == [line |-> "", id |-> 0, pre |-> InitState]

\* ------------------------------------------------------------ apply_message

\* tag == 'CL'
apply_CL(st, parts) == clear(st)

\* (mutant) heat taken from the round field
apply_RH_round(st, parts) ==
    [st EXCEPT !.event = Part(parts, 1, ""),
               !.heat  = Part(parts, 3, ""),
               !.clock = "0:00",
               !.mode  = "HEADER"]

\* (mutant) a new header starts with an empty results list
apply_RH_new_list(st, parts) ==
    [st EXCEPT !.event = Part(parts, 1, ""),
               !.heat  = Part(parts, 4, ""),
               !.clock = "0:00",
               !.mode  = "HEADER",
               !.results = <<>>,
               !.results_names = <<>>,
               !.result_index = 0]

\* tag == 'RH'
apply_RH(st, parts) ==
    LET heat == Part(parts, 4, "") IN
    [st EXCEPT !.event = Part(parts, 1, ""),
               !.heat  = IF heat # "" THEN heat ELSE "",
               !.clock = "0:00",
               !.mode  = "HEADER"]

\* (mutant) a clock update with no text blanks the clock
apply_TM_blank(st, parts) ==
    [st EXCEPT !.clock = Part(parts, 1, ""),
               !.mode  = "HEADER"]

\* (mutant) a clock update that leaves the mode alone
apply_TM_keeps_mode(st, parts) == [st EXCEPT !.clock = Part(parts, 1, st.clock)]

\* tag == 'TM'
apply_TM(st, parts) ==
    [st EXCEPT !.clock = Part(parts, 1, st.clock),
               !.mode  = "HEADER"]

\* (mutant) BEGIN and END compared without .upper()
apply_SRMODE_exact(st, parts) ==
    IF Len(parts) > 1 /\ parts[2] = "BEGIN"
    THEN [st EXCEPT !.mode = "RESULTS", !.result_index = 0]
    ELSE IF Len(parts) > 1 /\ parts[2] = "END"
         THEN [st EXCEPT !.mode = "HEADER"]
         ELSE st

\* (mutant) whatever is not BEGIN ends the results mode
apply_SRMODE_else_end(st, parts) ==
    IF Len(parts) > 1 /\ upper(parts[2]) = "BEGIN"
    THEN [st EXCEPT !.mode = "RESULTS", !.result_index = 0]
    ELSE [st EXCEPT !.mode = "HEADER"]

\* tag == 'SRMODE'
apply_SRMODE(st, parts) ==
    IF Len(parts) > 1 /\ upper(parts[2]) = "BEGIN"
    THEN [st EXCEPT !.mode = "RESULTS", !.result_index = 0]
    ELSE IF Len(parts) > 1 /\ upper(parts[2]) = "END"
         THEN [st EXCEPT !.mode = "HEADER"]
         ELSE st

\* (mutant) a result that leaves the mode alone
apply_SR_keeps_mode(st, parts) ==
    [st EXCEPT !.results       = LastCap(Append(st.results, <<Part(parts, 1, ""), Part(parts, 3, "")>>)),
               !.results_names = LastCap(Append(st.results_names, Part(parts, 2, "")))]

\* (mutant) only st.results is cut to its last 16
apply_SR_names_uncut(st, parts) ==
    [st EXCEPT !.results       = LastCap(Append(st.results, <<Part(parts, 1, ""), Part(parts, 3, "")>>)),
               !.results_names = Append(st.results_names, Part(parts, 2, "")),
               !.mode          = "RESULTS"]

\* tag == 'SR'
apply_SR(st, parts) ==
    LET place == Part(parts, 1, "")
        last  == Part(parts, 2, "")
        mark  == Part(parts, 3, "")
    IN [st EXCEPT !.results       = LastCap(Append(st.results, <<place, mark>>)),
                  !.results_names = LastCap(Append(st.results_names, last)),
                  !.mode          = "RESULTS"]

\* tag == 'TX'
apply_TX(st, parts) ==
    [st EXCEPT !.event = Part(parts, 1, st.event),
               !.heat  = "",
               !.mode  = "HEADER"]

\* (mutant) an unknown tag treated as a header message
apply_unknown_header(st, parts) == [st EXCEPT !.mode = "HEADER"]

\* # ignore unknown
apply_unknown(st, parts) == st

apply_message(st, line) ==
    IF line = "" THEN st
    ELSE LET parts == parse_csv_line(line)
             tag   == upper(parts[1])
         IN  IF parts = <<>> THEN st
             ELSE CASE tag = "CL"     -> apply_CL(st, parts)
                    [] tag = "RH"     -> apply_RH(st, parts)
                    [] tag = "TM"     -> apply_TM(st, parts)
                    [] tag = "SRMODE" -> apply_SRMODE(st, parts)
                    [] tag = "SR"     -> apply_SR(st, parts)
                    [] tag = "TX"     -> apply_TX(st, parts)
                    [] OTHER          -> apply_unknown(st, parts)

\* ----------------------------------------------------------------- Renderer

\* no frame drawn
NoFrame == [view |-> "none"]

\* Renderer.render_header: what it draws
render_header(st) ==
    [view |-> "header", event |-> st.event, heat |-> st.heat, clock |-> st.clock]

\* (mutant) results read at the stored index, without the modulo
render_results_raw(st) ==
    IF st.results = <<>> THEN render_header(st)
    ELSE LET i == st.result_index + 1
             ok == i <= Len(st.results)
         IN  [view |-> "result", index |-> i - 1,
              place |-> IF ok THEN st.results[i][1] ELSE "IndexError",
              mark  |-> IF ok THEN st.results[i][2] ELSE "IndexError",
              last  |-> IF ok THEN st.results_names[i] ELSE "IndexError"]

\* Renderer.render_results: what it draws
render_results(st) ==
    IF st.results = <<>> THEN render_header(st)
    ELSE LET i == (st.result_index % Len(st.results)) + 1 IN
         [view |-> "result", index |-> i - 1,
          place |-> st.results[i][1], mark |-> st.results[i][2],
          last |-> st.results_names[i]]

\* (mutant) the view chosen by the results list instead of the mode
render_by_results(st) == IF st.results # <<>> THEN render_results(st) ELSE render_header(st)

\* Renderer.render
render(st) == IF st.mode = "RESULTS" THEN render_results(st) ELSE render_header(st)

\* ------------------------------------------------------------------- peers

\* What a peer sends in one datagram (UDP, free mode).
Datagrams ==
    { "CL",
      "RH,\"Boys 1600m\",\"Event 12\",\"Round Final\",\"Heat 1\"\r\n",
      "TM,2:03.7\n",
      "srmode,Begin",
      "SrMode,end\n",
      "SR,1,\"Riley\",\"4:23.6\"\nSR,2,\"Chen\",\"4:24.1\"\n",
      "TX,\"Rain delay\"",
      "\n",
      "Z?Z,1\n" }

\* What a peer sends in one datagram (UDP, bare mode): tags with no argument
\* after messages that set the fields.
BareDatagrams ==
    { "RH,\"Boys 1600m\",\"Event 12\",\"Round Final\",\"Heat 1\"\n",
      "TM,2:03.7\n",
      "RH\n",
      "SR\n",
      "TM\n",
      "TX\n" }

\* What the fields of csv mode contain, before quoting.
RawFields == {"Riley", "Smith, J", "O\"Neil", " Lee ", ""}

RECURSIVE DoubleQuotes(_)
\* a text with each double quote doubled
DoubleQuotes(raw) ==
    IF raw = "" THEN ""
    ELSE (IF CharAt(raw, 1) = "\"" THEN "\"\"" ELSE CharAt(raw, 1))
         \o DoubleQuotes(SubSeq(raw, 2, Len(raw)))

\* The ways a peer writes a field: wrapped in quotes, wrapped and padded with
\* blanks, or as it is when it holds no comma and no quote.
WrittenFields ==
    LET quoted(raw) == "\"" \o DoubleQuotes(raw) \o "\""
        plain(raw)  == \A i \in 1..Len(raw) : CharAt(raw, i) \notin {",", "\""}
    IN  {[raw |-> raw, text |-> quoted(raw)] : raw \in RawFields}
        \cup {[raw |-> raw, text |-> " " \o quoted(raw) \o "  "] : raw \in RawFields}
        \cup {[raw |-> raw, text |-> raw] : raw \in {r \in RawFields : plain(r)}}

\* The field lists of csv mode: up to MaxFields written fields.
CsvFieldLists == UNION {[1..n -> WrittenFields] : n \in 0..MaxFields}

RECURSIVE CsvText(_)
\* the fields as written, each after a comma
CsvText(fs) == IF fs = <<>> THEN "" ELSE "," \o Head(fs).text \o CsvText(Tail(fs))

\* What a peer sends in one datagram (UDP, csv mode): an SR line of written fields.
CsvDatagrams == {"SR" \o CsvText(fs) \o "\n" : fs \in CsvFieldLists}

\* What follows the opening quote of a field that is never closed.
OpenContents == {"Rain delay", "Rain delay, stay", " Lee, A "}

\* The written fields before the unclosed one: none or one.
OpenFieldLists == {<<>>} \cup {<<w>> : w \in WrittenFields}

\* What a peer sends in one datagram (UDP, open mode): a TX line whose last
\* field opens a quote and never closes it.
OpenDatagrams ==
    {"TX" \o CsvText(fs) \o ",\"" \o content \o "\n" :
        fs \in OpenFieldLists, content \in OpenContents}

\* What a peer sends in one datagram (UDP, short mode): the shortest lines of
\* the protocol, one to three in the one datagram it sends.
ShortDatagrams == {"CL\n", "SR\nSR\n", "SR\nSR\nSR\n", "TM\n"}

\* What a peer sends in one datagram (UDP, srmode mode): a result, and SRMODE
\* lines whose argument is missing or is no BEGIN and no END.
SrmodeDatagrams ==
    { "SR,1,\"Riley\",\"4:23.6\"\n",
      "SRMODE\n",
      "srmode,\n",
      "SRMODE,PAUSE\n",
      "SrMode,Begins\n" }

\* The lines of section 8's scenarios, in order, one datagram each.
Scenario ==
    << "CL\n",
       "RH,\"Boys 1600m\",\"Event 12\",\"Round Final\",\"Heat 1\"\n",
       "TM,2:03.7\n",
       "SRMODE,BEGIN\n",
       "SR,1,\"Riley\",\"4:23.6\"\n",
       "SR,2,\"Chen\",\"4:24.1\"\n",
       "SRMODE,END\n",
       "SR,3,\"Okafor\",\"4:25.0\"\n" >>

\* The k-th line of a results page, one datagram each.
PageLine(k) == "SR," \o ToString(k) \o ",\"Runner" \o ToString(k) \o "\",\"4:" \o ToString(10 + k) \o "\"\n"

\* What a peer writes to a TCP connection in one call.
TcpMessages ==
    { "TM,2:03.7\n",
      "CL\r\nTM,0:00\r\n" }

\* Where the network may cut a written message in two segments.
CutPoints(data) == {Len(data) \div 2}

Conn == 1..MaxConns

\* ------------------------------------------------------------------- state

VARIABLES
    udp,          \* Receiver.udp
    peer,         \* "free": any datagrams; "page": a results page; "scenario": Scenario;
                  \*   "bare": BareDatagrams; "csv": one of CsvDatagrams;
                  \*   "open": one of OpenDatagrams; "short": ShortDatagrams;
                  \*   "srmode": SrmodeDatagrams
    sent,         \* datagrams or TCP messages sent so far
    nconn,        \* TCP connections opened so far; they are 1..nconn
    backlog,      \* TCP connections the listener has not accepted yet, in order
    net,          \* per connection: bytes received and unread (wire), bytes of a cut
                  \*   message still under way (rest), the peer's end: "up"|"fin"|"rst"
    fpc,          \* Receiver thread: "select" | "accept" | "iter" | "put"
    conns,        \* _run_tcp: conns
    todo,         \* _run_tcp: the connections of list(conns) in r, still to serve
    closed,       \* connections the receiver has closed
    pending,      \* Receiver thread: lines of the received data still to put
    q,            \* Receiver.q
    stop_evt,     \* Receiver.stop_evt
    st,           \* main: st
    spc,          \* main loop: "loop" | "drain" | "rotate" | "render" | "sleep" | "exit"
    running,      \* main: running
    next_rotate,  \* main: next_rotate, counted from the present time.time() in units
                  \*   of the frame delay, and 0 once it has passed
    frame,        \* what the render call of this tick drew (NoFrame before it)
    nrecv,        \* ghost: lines received so far; line k carries id k
    napplied,     \* ghost: lines applied so far
    applied,      \* ghost: the line apply_message just took and the state before it
    hist,         \* ghost: the SR entries applied since the last CL
    rotBase,      \* ghost: st.result_index when the last line had been applied
    rotK,         \* ghost: rotation steps since the last applied line
    elapsed,      \* ghost: frame delays slept since next_rotate was last assigned,
                  \*   counted up to RotateTicks
    lastReset,    \* ghost: what assigned next_rotate last ("start", "idle": a tick
                  \*   with no results showing, "rotation") and what did before that
    cpc,          \* run_clock: "off" (not called) | "start" | "key" | "tick" | "done"
    direction,    \* run_clock: direction
    start,        \* run_clock: start
    cur,          \* run_clock: cur
    since,        \* run_clock: time.monotonic() - last, in clock units
    crunning,     \* run_clock: running
    shown,        \* the seconds draw_time drew last
    ran,          \* ghost: clock units passed while running and not yet counted,
                  \*   since the last reset or stop at 0
    pausedAt      \* ghost: cur when the clock last stopped running or was reset

clockVars == <<cpc, direction, start, cur, since, crunning, shown, ran, pausedAt>>

lynxVars == <<udp, peer, sent, nconn, backlog, net, fpc, conns, todo, closed, pending, q,
              stop_evt, st, spc, running, next_rotate,
              frame, nrecv, napplied, applied, hist, rotBase, rotK, elapsed, lastReset>>

vars == <<lynxVars, clockVars>>

peerVars   == <<udp, peer, sent, nconn, backlog, net>>
framerVars == <<fpc, conns, todo, closed, pending, nrecv>>
mainVars   == <<st, spc, next_rotate, frame, napplied, applied, hist, rotBase, rotK,
                elapsed, lastReset>>

\* the receiver program after its start
InitLynx ==
    /\ udp \in BOOLEAN
    /\ peer \in (IF udp THEN {"free", "page", "scenario", "bare", "csv", "open", "short", "srmode"} ELSE {"free"})
    /\ sent = 0
    /\ nconn = 0
    /\ backlog = <<>>
    /\ net = [c \in Conn |-> [wire |-> "", rest |-> "", end |-> "up"]]
    /\ fpc = "select"
    /\ conns = <<>>
    /\ todo = <<>>
    /\ closed = {}
    /\ pending = <<>>
    /\ q = <<>>
    /\ stop_evt = FALSE
    /\ st = InitState
    /\ spc = "loop"
    /\ running = TRUE
    /\ next_rotate = 0 + RotateTicks
    /\ frame = NoFrame
    /\ nrecv = 0
    /\ napplied = 0
    /\ applied = NoLine
    /\ hist = <<>>
    /\ rotBase = 0
    /\ rotK = 0
    /\ elapsed = 0
    /\ lastReset = [cause |-> "start", prev |-> "start"]

\* timer_modes.fmt_hhmmss: the hours, minutes and seconds of the text drawn
fmt_hhmmss(total_seconds) ==
    LET t == IF total_seconds < 0 THEN 0 ELSE total_seconds
    IN  [h |-> t \div 3600, m |-> (t % 3600) \div 60, s |-> t % 60]

\* run_clock is not called
ClockOff ==
    /\ cpc = "off"
    /\ direction = DIR_UP
    /\ start = 0
    /\ cur = 0
    /\ since = 0
    /\ crunning = FALSE
    /\ shown = fmt_hhmmss(0)
    /\ ran = 0
    /\ pausedAt = 0

Init == InitLynx /\ ClockOff

\* ------------------------------------------------------------------- queue

\* (mutant) a queue made with maxsize=1
q_full_bounded(queue) == Len(queue) >= 1

\* queue.Queue(): maxsize 0, the queue is never full and put never waits
q_full(queue) == FALSE

\* queue.Queue.put
q_put(queue, item) == Append(queue, item)

\* (mutant) a LIFO queue: get_nowait returns the newest item
q_get_lifo(queue) == queue[Len(queue)]

\* queue.Queue.get_nowait: the item it returns
q_get(queue) == Head(queue)

\* queue.Queue.get_nowait: the queue it leaves
q_rest(queue) == Tail(queue)

\* ---------------------------------------------------------------- Receiver

\* the lines of received data, numbered in order from n + 1
Numbered(lines, n) == [k \in 1..Len(lines) |-> [line |-> lines[k], id |-> n + k]]

\* the datagrams a peer may send next
NextDatagrams ==
    CASE peer = "free"     -> IF sent < MaxSent THEN Datagrams ELSE {}
      [] peer = "csv"      -> IF sent = 0 THEN CsvDatagrams ELSE {}
      [] peer = "open"     -> IF sent = 0 THEN OpenDatagrams ELSE {}
      [] peer = "short"    -> IF sent = 0 THEN ShortDatagrams ELSE {}
      [] peer = "srmode"   -> IF sent < MaxSent THEN SrmodeDatagrams ELSE {}
      [] peer = "bare"     -> IF sent < MaxSent THEN BareDatagrams ELSE {}
      [] peer = "page"     -> IF sent < PageLen THEN {PageLine(sent + 1)} ELSE {}
      [] peer = "scenario" -> IF sent < Len(Scenario) THEN {Scenario[sent + 1]} ELSE {}

\* for line in data.decode(errors='ignore').splitlines()
lines_of(data) == splitlines(decode(data))

\* where the receiver goes once `left` lines and `serve` connections remain
after_data(left, serve) ==
    IF left # <<>> THEN "put" ELSE IF serve # <<>> THEN "iter" ELSE "select"

\* _run_udp: select returns the socket readable, recvfrom returns a datagram
UdpRecv ==
    /\ udp
    /\ spc # "exit"
    /\ fpc = "select"
    /\ ~stop_evt
    /\ \E data \in NextDatagrams :
          LET lines == lines_of(data) IN
          /\ pending' = Numbered(lines, nrecv)
          /\ nrecv' = nrecv + Len(lines)
          /\ fpc' = after_data(lines, <<>>)
    /\ sent' = sent + 1
    /\ UNCHANGED <<udp, peer, nconn, backlog, net, conns, todo, closed, q, stop_evt, running>>
    /\ UNCHANGED mainVars
    /\ UNCHANGED clockVars

\* (mutant) the receiver thread applies the line itself as well as queueing it
Put_applies ==
    /\ spc # "exit"
    /\ fpc = "put"
    /\ ~q_full(q)
    /\ q' = q_put(q, [line |-> strip(Head(pending).line), id |-> Head(pending).id])
    /\ st' = apply_message(st, strip(Head(pending).line))
    /\ pending' = Tail(pending)
    /\ fpc' = after_data(Tail(pending), todo)
    /\ UNCHANGED <<conns, todo, closed, nrecv, stop_evt, running>>
    /\ UNCHANGED peerVars
    /\ UNCHANGED <<spc, next_rotate, frame, napplied, applied, hist, rotBase, rotK,
                   elapsed, lastReset>>
    /\ UNCHANGED clockVars

\* self.q.put(line.strip()) for the next line of the received data
Put ==
    /\ spc # "exit"
    /\ fpc = "put"
    /\ ~q_full(q)
    /\ q' = q_put(q, [line |-> strip(Head(pending).line), id |-> Head(pending).id])
    /\ pending' = Tail(pending)
    /\ fpc' = after_data(Tail(pending), todo)
    /\ UNCHANGED <<conns, todo, closed, nrecv, stop_evt, running>>
    /\ UNCHANGED peerVars
    /\ UNCHANGED mainVars
    /\ UNCHANGED clockVars

\* a peer connects
TcpConnect ==
    /\ ~udp
    /\ spc # "exit"
    /\ nconn < MaxConns
    /\ nconn' = nconn + 1
    /\ backlog' = Append(backlog, nconn + 1)
    /\ UNCHANGED <<udp, peer, sent, net, q, stop_evt, running>>
    /\ UNCHANGED framerVars
    /\ UNCHANGED mainVars
    /\ UNCHANGED clockVars

\* a peer writes a message; all of it, or only its first segment, arrives
TcpSend ==
    /\ ~udp
    /\ spc # "exit"
    /\ sent < MaxSent
    /\ \E c \in 1..nconn, data \in TcpMessages :
          /\ c \notin closed
          /\ net[c].end = "up"
          /\ net[c].rest = ""
          /\ \E k \in {Len(data)} \cup CutPoints(data) :
                net' = [net EXCEPT ![c].wire = @ \o SubSeq(data, 1, k),
                                   ![c].rest = SubSeq(data, k + 1, Len(data))]
    /\ sent' = sent + 1
    /\ UNCHANGED <<udp, peer, nconn, backlog, q, stop_evt, running>>
    /\ UNCHANGED framerVars
    /\ UNCHANGED mainVars
    /\ UNCHANGED clockVars

\* the second segment of a cut message arrives
TcpSendRest ==
    /\ ~udp
    /\ spc # "exit"
    /\ \E c \in 1..nconn :
          /\ c \notin closed
          /\ net[c].end = "up"
          /\ net[c].rest # ""
          /\ net' = [net EXCEPT ![c].wire = @ \o net[c].rest, ![c].rest = ""]
    /\ UNCHANGED <<udp, peer, sent, nconn, backlog, q, stop_evt, running>>
    /\ UNCHANGED framerVars
    /\ UNCHANGED mainVars
    /\ UNCHANGED clockVars

\* a peer closes its end ("fin") or the connection is reset ("rst")
TcpPeerEnd ==
    /\ ~udp
    /\ spc # "exit"
    /\ Cardinality({c \in Conn : net[c].end # "up"}) < MaxEnds
    /\ \E c \in 1..nconn, how \in {"fin", "rst"} :
          /\ c \notin closed
          /\ net[c].end = "up"
          /\ net' = [net EXCEPT ![c].end = how]
    /\ UNCHANGED <<udp, peer, sent, nconn, backlog, q, stop_evt, running>>
    /\ UNCHANGED framerVars
    /\ UNCHANGED mainVars
    /\ UNCHANGED clockVars

\* whether select reports connection c readable
readable(c) == net[c].wire # "" \/ net[c].end # "up"

\* (mutant) a failed read drops every connection
list_remove_all(xs, c) == <<>>

\* conns.remove(c)
list_remove(xs, c) == SelectSeq(xs, LAMBDA x : x # c)

\* _run_tcp: r,_,_ = select.select([server] + conns, [], [], 0.25), with r not empty
TcpSelect ==
    /\ ~udp
    /\ spc # "exit"
    /\ fpc = "select"
    /\ ~stop_evt
    /\ LET ready == SelectSeq(conns, readable) IN
       /\ backlog # <<>> \/ ready # <<>>
       /\ todo' = ready
       /\ fpc' = IF backlog # <<>> THEN "accept" ELSE "iter"
    /\ UNCHANGED <<conns, closed, pending, nrecv, q, stop_evt, running>>
    /\ UNCHANGED peerVars
    /\ UNCHANGED mainVars
    /\ UNCHANGED clockVars

\* _run_tcp: conn, _ = server.accept(); conns.append(conn)
TcpAccept ==
    /\ spc # "exit"
    /\ fpc = "accept"
    /\ conns' = Append(conns, Head(backlog))
    /\ backlog' = Tail(backlog)
    /\ fpc' = after_data(<<>>, todo)
    /\ UNCHANGED <<udp, peer, sent, nconn, net, todo, closed, pending, nrecv, q, stop_evt, running>>
    /\ UNCHANGED mainVars
    /\ UNCHANGED clockVars

\* _run_tcp: data = c.recv(4096) for the next connection of list(conns) that is in r
TcpRecv ==
    /\ spc # "exit"
    /\ fpc = "iter"
    /\ LET c == Head(todo) IN
       IF net[c].end = "rst" \/ net[c].wire = ""
       THEN \* recv raises, or returns b'': conns.remove(c); c.close()
            /\ conns' = list_remove(conns, c)
            /\ closed' = closed \cup {c}
            /\ fpc' = after_data(<<>>, Tail(todo))
            /\ UNCHANGED <<net, pending, nrecv>>
       ELSE LET lines == lines_of(net[c].wire) IN
            /\ net' = [net EXCEPT ![c].wire = ""]
            /\ pending' = Numbered(lines, nrecv)
            /\ nrecv' = nrecv + Len(lines)
            /\ fpc' = after_data(lines, Tail(todo))
            /\ UNCHANGED <<conns, closed>>
    /\ todo' = Tail(todo)
    /\ UNCHANGED <<udp, peer, sent, nconn, backlog, q, stop_evt, running>>
    /\ UNCHANGED mainVars
    /\ UNCHANGED clockVars

\* -------------------------------------------------------------------- main

\* the SR entries applied since the last CL, after one more line
hist_after(h, line) ==
    LET parts == parse_csv_line(line)
        tag   == upper(parts[1])
    IN  IF line = "" \/ parts = <<>> THEN h
        ELSE IF tag = "CL" THEN <<>>
        ELSE IF tag = "SR"
             THEN Append(h, <<Part(parts, 1, ""), Part(parts, 2, ""), Part(parts, 3, "")>>)
             ELSE h

\* signal handler _sig
Signal ==
    /\ running
    /\ spc # "exit"
    /\ running' = FALSE
    /\ UNCHANGED <<q, stop_evt>>
    /\ UNCHANGED peerVars
    /\ UNCHANGED framerVars
    /\ UNCHANGED mainVars
    /\ UNCHANGED clockVars

\* while running:
LoopCheck ==
    /\ spc = "loop"
    /\ spc' = IF running THEN "drain" ELSE "exit"
    /\ UNCHANGED <<q, stop_evt, running, st, next_rotate, frame, napplied, applied, hist, rotBase, rotK,
                   elapsed, lastReset>>
    /\ UNCHANGED peerVars
    /\ UNCHANGED framerVars
    /\ UNCHANGED clockVars

\* line = recv.q.get_nowait(); apply_message(st, line)
DrainGet ==
    /\ spc = "drain"
    /\ q # <<>>
    /\ LET item == q_get(q) IN
       /\ st' = apply_message(st, item.line)
       /\ applied' = [line |-> item.line, id |-> item.id, pre |-> st]
       /\ hist' = hist_after(hist, item.line)
    /\ q' = q_rest(q)
    /\ napplied' = napplied + 1
    /\ rotBase' = st'.result_index
    /\ rotK' = 0
    /\ UNCHANGED <<stop_evt, running, spc, next_rotate, frame, elapsed, lastReset>>
    /\ UNCHANGED peerVars
    /\ UNCHANGED framerVars
    /\ UNCHANGED clockVars

\* (mutant) the drain may stop while lines are waiting
DrainEmpty_early ==
    /\ spc = "drain"
    /\ spc' = "rotate"
    /\ applied' = NoLine
    /\ UNCHANGED <<q, stop_evt, running, st, next_rotate, frame, napplied, hist, rotBase, rotK,
                   elapsed, lastReset>>
    /\ UNCHANGED peerVars
    /\ UNCHANGED framerVars
    /\ UNCHANGED clockVars

\* except queue.Empty: pass
DrainEmpty ==
    /\ spc = "drain"
    /\ q = <<>>
    /\ spc' = "rotate"
    /\ applied' = NoLine
    /\ UNCHANGED <<q, stop_evt, running, st, next_rotate, frame, napplied, hist, rotBase, rotK,
                   elapsed, lastReset>>
    /\ UNCHANGED peerVars
    /\ UNCHANGED framerVars
    /\ UNCHANGED clockVars

\* whether this tick takes a rotation step: results showing and the interval elapsed
rotation_due(s, now, nxt) == s.mode = "RESULTS" /\ s.results # <<>> /\ now >= nxt

\* (mutant) a rotation step on every tick, whatever the interval
rotate_state_every_tick(s, now, nxt) ==
    IF s.mode = "RESULTS" /\ s.results # <<>>
    THEN [s EXCEPT !.result_index = s.result_index + 1]
    ELSE s

\* the rotation step of main: the state it leaves
rotate_state(s, now, nxt) ==
    IF rotation_due(s, now, nxt)
    THEN [s EXCEPT !.result_index = s.result_index + 1]
    ELSE s

\* (mutant) the timer is left alone on a tick with no results showing
rotate_next_stale(s, now, nxt) ==
    IF s.mode = "RESULTS" /\ s.results # <<>>
    THEN IF now >= nxt THEN now + RotateTicks ELSE nxt
    ELSE nxt

\* the rotation step of main: the next_rotate it leaves
rotate_next(s, now, nxt) ==
    IF s.mode = "RESULTS" /\ s.results # <<>>
    THEN IF now >= nxt THEN now + RotateTicks ELSE nxt
    ELSE now + RotateTicks

\* now = time.time() and the rotation step; next_rotate is counted from now
Rotate ==
    /\ spc = "rotate"
    /\ LET now == 0 IN
       /\ rotation_due(st, now, next_rotate) => st.result_index < MaxIndex
       /\ st' = rotate_state(st, now, next_rotate)
       /\ next_rotate' = rotate_next(st, now, next_rotate)
       /\ rotK' = IF rotation_due(st, now, next_rotate) THEN rotK + 1 ELSE rotK
       /\ IF st.mode = "RESULTS" /\ st.results # <<>>
          THEN IF now >= next_rotate
               THEN /\ elapsed' = 0
                    /\ lastReset' = [cause |-> "rotation", prev |-> lastReset.cause]
               ELSE UNCHANGED <<elapsed, lastReset>>
          ELSE /\ elapsed' = 0
               /\ lastReset' = [cause |-> "idle", prev |-> lastReset.cause]
    /\ spc' = "render"
    /\ UNCHANGED <<q, stop_evt, running, frame, napplied, applied, hist, rotBase>>
    /\ UNCHANGED peerVars
    /\ UNCHANGED framerVars
    /\ UNCHANGED clockVars

\* renderer.render(st)
Render ==
    /\ spc = "render"
    /\ frame' = render(st)
    /\ spc' = "sleep"
    /\ UNCHANGED <<q, stop_evt, running, st, next_rotate, napplied, applied, hist, rotBase, rotK,
                   elapsed, lastReset>>
    /\ UNCHANGED peerVars
    /\ UNCHANGED framerVars
    /\ UNCHANGED clockVars

\* time.sleep(frame_delay): d frame delays pass
Sleep ==
    /\ spc = "sleep"
    /\ \E d \in 1..MaxElapse :
          /\ next_rotate' = IF next_rotate > d THEN next_rotate - d ELSE 0
          /\ elapsed' = IF elapsed + d < RotateTicks THEN elapsed + d ELSE RotateTicks
    /\ frame' = NoFrame
    /\ spc' = "loop"
    /\ UNCHANGED <<q, stop_evt, running, st, napplied, applied, hist, rotBase, rotK, lastReset>>
    /\ UNCHANGED peerVars
    /\ UNCHANGED framerVars
    /\ UNCHANGED clockVars

Next ==
    \/ UdpRecv
    \/ Put
    \/ TcpConnect
    \/ TcpSend
    \/ TcpSendRest
    \/ TcpPeerEnd
    \/ TcpSelect
    \/ TcpAccept
    \/ TcpRecv
    \/ Signal
    \/ LoopCheck
    \/ DrainGet
    \/ DrainEmpty
    \/ Rotate
    \/ Render
    \/ Sleep

Spec == Init /\ [][Next]_vars

\* The default transport only (udp = not args.tcp).
InitUdp == Init /\ udp = TRUE

NextUdp ==
    \/ UdpRecv
    \/ Put
    \/ Signal
    \/ LoopCheck
    \/ DrainGet
    \/ DrainEmpty
    \/ Rotate
    \/ Render
    \/ Sleep

SpecUdp == InitUdp /\ [][NextUdp]_vars

\* a step of the main thread
MainStep == LoopCheck \/ DrainGet \/ DrainEmpty \/ Rotate \/ Render \/ Sleep

\* The ticks of the main loop on their own: the default transport, a peer that
\* sends short lines, and a main thread that is never held up by another
\* thread, so that it gets to take its steps.
InitTick == InitUdp /\ peer = "short"

SpecTickFair == InitTick /\ [][NextUdp]_vars /\ WF_vars(MainStep)

\* ------------------------------------------------- timer_modes.run_clock
\* The manual clock of the sign controller. Its time is followed in clock
\* units: since is time.monotonic() - last, and a sleep of the loop lets at
\* most one unit pass.

\* the keys _get_key_nonblock returns: none (no key waiting), Enter, Space,
\* R and ESC
Keys == {"none", "enter", "space", "r", "esc"}

\* start or 0
start_or_0 == IF start = NoStart THEN 0 ELSE start

\* the value R resets the clock to
reset_value == IF direction = DIR_UP THEN 0 ELSE start_or_0

\* run_clock is called from the menu: the receiver is left as it started, and
\* collect_hhmmss returns what was entered
InitClock ==
    /\ InitLynx
    /\ udp = TRUE
    /\ peer = "free"
    /\ cpc = "start"
    /\ direction \in {DIR_UP, DIR_DOWN}
    /\ start \in {NoStart} \cup 0..MaxStart
    /\ cur = 0
    /\ since = 0
    /\ crunning = FALSE
    /\ shown = fmt_hhmmss(0)
    /\ ran = 0
    /\ pausedAt = 0

\* run_clock up to its loop
run_clock ==
    /\ cpc = "start"
    /\ IF start = NoStart /\ direction = DIR_DOWN
       THEN /\ cpc' = "done"
            /\ UNCHANGED <<cur, shown, pausedAt>>
       ELSE LET c == IF direction = DIR_UP /\ (start = NoStart \/ start = 0)
                     THEN 0 ELSE start_or_0
            IN  /\ cpc' = "key"
                /\ cur' = c
                /\ shown' = fmt_hhmmss(c)
                /\ pausedAt' = c
    /\ since' = 0
    /\ crunning' = FALSE
    /\ ran' = 0
    /\ UNCHANGED <<direction, start>>
    /\ UNCHANGED lynxVars

\* the input handling of one pass of the loop
ClockKey ==
    /\ cpc = "key"
    /\ \E c \in Keys :
        CASE c = "enter" ->
                /\ crunning' = ~crunning
                /\ pausedAt' = cur
                /\ cpc' = "tick"
                /\ UNCHANGED <<cur, shown, ran>>
          [] c = "space" ->
                /\ crunning' = FALSE
                /\ pausedAt' = cur
                /\ cpc' = "tick"
                /\ UNCHANGED <<cur, shown, ran>>
          [] c = "r" ->
                /\ cur' = reset_value
                /\ shown' = fmt_hhmmss(reset_value)
                /\ pausedAt' = reset_value
                /\ ran' = 0
                /\ cpc' = "tick"
                /\ UNCHANGED crunning
          [] c = "esc" ->
                /\ crunning' = FALSE
                /\ pausedAt' = cur
                /\ cpc' = IF crunning THEN "tick" ELSE "done"
                /\ UNCHANGED <<cur, shown, ran>>
          [] OTHER ->
                /\ cpc' = "tick"
                /\ UNCHANGED <<cur, shown, crunning, pausedAt, ran>>
    /\ UNCHANGED <<direction, start, since>>
    /\ UNCHANGED lynxVars

\* the rest of one pass of the loop: count the whole seconds since last, or
\* sleep
ClockTick ==
    /\ cpc = "tick"
    /\ IF crunning /\ since >= UnitsPerSecond
       THEN LET step == since \div UnitsPerSecond
                moved == IF direction = DIR_UP THEN cur + step ELSE cur - step
                atZero == direction = DIR_DOWN /\ moved <= 0
                c == IF atZero THEN 0 ELSE moved
            IN  /\ c <= MaxCur
                /\ since' = since - step * UnitsPerSecond
                /\ cur' = c
                /\ crunning' = IF atZero THEN FALSE ELSE crunning
                /\ shown' = fmt_hhmmss(c)
                /\ ran' = IF atZero THEN 0 ELSE ran - step * UnitsPerSecond
                /\ pausedAt' = c
       ELSE /\ \E d \in {0, 1} :
                /\ since + d <= MaxSince
                /\ since' = since + d
                /\ ran' = IF crunning THEN ran + d ELSE ran
            /\ UNCHANGED <<cur, crunning, shown, pausedAt>>
    /\ cpc' = "key"
    /\ UNCHANGED <<direction, start>>
    /\ UNCHANGED lynxVars

NextClock ==
    \/ run_clock
    \/ ClockKey
    \/ ClockTick

SpecClock == InitClock /\ [][NextClock]_vars

\* ------------------------------------------------------------------ claims
\* While applied.id # 0 the main loop has just applied applied.line to the state
\* applied.pre and has taken no other step since, so st is what apply_message
\* made of it.

Applied == applied.id # 0

\* the fields of the line just applied
AppliedParts == parse_csv_line(applied.line)

\* the tag of the line just applied ("" for a blank line)
AppliedTag == upper(AppliedParts[1])

KnownTags == {"CL", "RH", "TM", "SRMODE", "SR", "TX"}

\* the {place, name, mark} entries of a state's results, oldest first
Entries(s) ==
    [k \in 1..Len(s.results) |-> <<s.results[k][1], s.results_names[k], s.results[k][2]>>]

\* the ids of the lines received and not yet applied, in queue order then loop order
WaitingIds == [k \in 1..Len(q) |-> q[k].id] \o [k \in 1..Len(pending) |-> pending[k].id]

\* C1: lines are applied in exactly the order the receiver got and enqueued them:
\* the lines waiting (queued, or still to be put) are the lines napplied+1..nrecv in
\* that order, and the line just applied is line number napplied, so the drain takes
\* line 1, then 2, ... with none reordered, duplicated or skipped.
C1_AppliedInOrder ==
    /\ WaitingIds = [k \in 1..(nrecv - napplied) |-> napplied + k]
    /\ Applied => applied.id = napplied

\* C1 witness: a line is applied in a later tick than lines 1 and 2 (they were
\* results, and a rotation step has followed them) while another line waits.
C1_Witness ==
    /\ Applied
    /\ applied.id >= 3
    /\ applied.pre.result_index > 0
    /\ Len(q) >= 1

\* C2: the results list never holds more than 16 entries, and it is exactly the
\* last 16 (or fewer) SR entries applied since the last CL, oldest first.
C2_LastSixteen ==
    /\ Len(st.results) <= ResultsCap
    /\ LET n == Len(hist)
           m == IF n > ResultsCap THEN ResultsCap ELSE n
       IN  Entries(st) = [k \in 1..m |-> hist[n - m + k]]

\* C2 witness: more than 16 SR lines applied with no CL between them.
C2_Witness ==
    /\ Len(hist) > ResultsCap
    /\ Len(st.results) = ResultsCap
    /\ st.results[1][1] = "2"

\* C3: a CL line leaves exactly the initial state, whatever the state before.
C3_ClearResets == (Applied /\ AppliedTag = "CL") => st = InitState

\* C3 witness: CL applied to a state with results, in RESULTS mode, mid-rotation.
C3_Witness ==
    /\ Applied
    /\ AppliedTag = "CL"
    /\ applied.pre.mode = "RESULTS"
    /\ applied.pre.results # <<>>
    /\ applied.pre.result_index > 0
    /\ st = InitState

\* C4: a blank line, or a line whose first field is no known tag, changes no field
\* of the state.
C4_UnknownIgnored ==
    (Applied /\ (applied.line = "" \/ AppliedTag \notin KnownTags)) => st = applied.pre

\* C4 witness: an unknown line applied to a state that is not the initial one.
C4_Witness ==
    /\ Applied
    /\ applied.line # ""
    /\ AppliedTag \notin KnownTags
    /\ applied.pre.mode = "RESULTS"
    /\ applied.pre.results # <<>>
    /\ st = applied.pre

\* C4, second case reached: a blank line applied to such a state.
C4_BlankReached ==
    /\ Applied
    /\ applied.line = ""
    /\ applied.pre.mode = "RESULTS"
    /\ st = applied.pre

\* Rotation started from index 0 with results showing, and no line applied since.
RotationFromZero == st.mode = "RESULTS" /\ st.results # <<>> /\ rotBase = 0

\* C5 as claimed: after K rotation steps from index 0 the stored index is K mod L.
C5_StoredIndexWraps == RotationFromZero => st.result_index = rotK % Len(st.results)

\* C5 as amended: a rotation step adds 1 to the stored index, which is K after K
\* steps from 0; the index render_results reads at is K mod L.
C5_ShownIndexWraps ==
    RotationFromZero =>
        /\ st.result_index = rotK
        /\ render(st).index = rotK % Len(st.results)

\* C5 witness: two results, two rotation steps: entry 0 is shown again.
C5_Witness ==
    /\ peer = "scenario"
    /\ RotationFromZero
    /\ Len(st.results) = 2
    /\ rotK = 2
    /\ render(st).index = 0

\* The render call of this tick has read the state.
Rendered == frame.view # "none"

\* C6 as claimed: at each render call the stored index is below max(L, 1).
C6_StoredIndexInRange ==
    Rendered => st.result_index < (IF Len(st.results) > 1 THEN Len(st.results) ELSE 1)

\* C6 as amended: at each render call that shows a result, the index it reads at is
\* the stored index mod L and so below L; with no results the stored index is 0.
C6_ReadIndexInRange ==
    /\ frame.view = "result" =>
          /\ frame.index = st.result_index % Len(st.results)
          /\ frame.index < Len(st.results)
          /\ frame.place = st.results[frame.index + 1][1]
    /\ st.results = <<>> => st.result_index = 0

\* C6 witness: a result rendered while the stored index is not below L.
C6_Witness ==
    /\ frame.view = "result"
    /\ st.result_index >= Len(st.results)

\* C7: a TM line forces mode HEADER and sets clock to its text field.
C7_ClockForcesHeader ==
    (Applied /\ AppliedTag = "TM") =>
        /\ st.mode = "HEADER"
        /\ Len(AppliedParts) > 1 => st.clock = AppliedParts[2]

\* C7 witness: TM applied in RESULTS mode with results in the list.
C7_Witness ==
    /\ Applied
    /\ AppliedTag = "TM"
    /\ applied.pre.mode = "RESULTS"
    /\ applied.pre.results # <<>>
    /\ st.clock = "2:03.7"
    /\ st.mode = "HEADER"

\* C8: an RH line sets event to field 1 and heat to field 4, clock to "0:00" and
\* mode to HEADER; and the scenario CL, RH, TM ends in the state of section 8.
C8_Header ==
    /\ (Applied /\ AppliedTag = "RH") =>
          /\ st.event = (IF Len(AppliedParts) >= 2 THEN AppliedParts[2] ELSE "")
          /\ st.heat  = (IF Len(AppliedParts) >= 5 THEN AppliedParts[5] ELSE "")
          /\ st.clock = "0:00"
          /\ st.mode  = "HEADER"
    /\ (peer = "scenario" /\ Applied /\ applied.id = 3) =>
          /\ st.event = "Boys 1600m"
          /\ st.heat  = "Heat 1"
          /\ st.clock = "2:03.7"
          /\ st.mode  = "HEADER"

\* C8 witness: RH applied in RESULTS mode with results in the list.
C8_Witness ==
    /\ Applied
    /\ AppliedTag = "RH"
    /\ applied.pre.mode = "RESULTS"
    /\ applied.pre.results # <<>>
    /\ st.event = "Boys 1600m"
    /\ st.heat = "Heat 1"
    /\ st.mode = "HEADER"

\* C8, the scenario reached: CL, RH and TM,2:03.7 applied in this order.
C8_ScenarioReached ==
    /\ peer = "scenario"
    /\ Applied
    /\ applied.id = 3
    /\ st.clock = "2:03.7"

\* the argument of the SRMODE line just applied, in upper case
AppliedSrmode == IF Len(AppliedParts) > 1 THEN upper(AppliedParts[2]) ELSE ""

\* C9: SRMODE,BEGIN in any letter case sets mode RESULTS and rotation index 0,
\* SRMODE,END sets mode HEADER, and neither changes any other field.
C9_ResultsMode ==
    (Applied /\ AppliedTag = "SRMODE") =>
        /\ AppliedSrmode = "BEGIN" =>
              st = [applied.pre EXCEPT !.mode = "RESULTS", !.result_index = 0]
        /\ AppliedSrmode = "END" =>
              st = [applied.pre EXCEPT !.mode = "HEADER"]

\* C9 witness: a mixed-case BEGIN applied mid-rotation.
C9_Witness ==
    /\ Applied
    /\ applied.line = "srmode,Begin"
    /\ applied.pre.results # <<>>
    /\ applied.pre.result_index > 0
    /\ st.mode = "RESULTS"
    /\ st.result_index = 0
    /\ st.results = applied.pre.results

\* C9, END reached: a mixed-case END applied in RESULTS mode.
C9_EndReached ==
    /\ Applied
    /\ applied.line = "SrMode,end"
    /\ applied.pre.mode = "RESULTS"
    /\ applied.pre.results # <<>>
    /\ st.mode = "HEADER"

\* C10: an SR line puts its entry after the entries already there (the oldest
\* leaves when there were 16) and forces mode RESULTS.
C10_ResultAppended ==
    (Applied /\ AppliedTag = "SR") =>
        LET e    == << IF Len(AppliedParts) >= 2 THEN AppliedParts[2] ELSE "",
                       IF Len(AppliedParts) >= 3 THEN AppliedParts[3] ELSE "",
                       IF Len(AppliedParts) >= 4 THEN AppliedParts[4] ELSE "" >>
            old  == Entries(applied.pre)
            kept == IF Len(old) < ResultsCap THEN old ELSE Tail(old)
        IN  /\ Entries(st) = Append(kept, e)
            /\ st.mode = "RESULTS"

\* C10 witness: the scenario's SR after SRMODE,END: two entries kept, a third
\* added, mode back to RESULTS.
C10_Witness ==
    /\ peer = "scenario"
    /\ Applied
    /\ applied.id = 8
    /\ applied.pre.mode = "HEADER"
    /\ Len(applied.pre.results) = 2
    /\ Entries(st) = << <<"1", "Riley", "4:23.6">>, <<"2", "Chen", "4:24.1">>,
                        <<"3", "Okafor", "4:25.0">> >>
    /\ st.mode = "RESULTS"

\* The line just applied is the bare tag, with no argument.
AppliedBare(tag) == Applied /\ AppliedTag = tag /\ Len(AppliedParts) = 1

\* C11 as claimed: a missing argument of any recognised tag is the empty string:
\* bare RH empties event and heat, bare SR adds an entry of empty strings, bare TM
\* empties the clock and bare TX empties the event.
C11_MissingIsEmpty ==
    /\ AppliedBare("RH") => st.event = "" /\ st.heat = ""
    /\ AppliedBare("SR") => Entries(st)[Len(st.results)] = <<"", "", "">>
    /\ AppliedBare("TM") => st.clock = ""
    /\ AppliedBare("TX") => st.event = ""

\* C11 as amended: bare RH empties event and heat and bare SR adds an entry of
\* empty strings; bare TM keeps the clock and bare TX keeps the event (and both
\* still force HEADER, TX also emptying heat).
C11_MissingArgument ==
    /\ AppliedBare("RH") => st.event = "" /\ st.heat = ""
    /\ AppliedBare("SR") => Entries(st)[Len(st.results)] = <<"", "", "">>
    /\ AppliedBare("TM") => st.clock = applied.pre.clock /\ st.mode = "HEADER"
    /\ AppliedBare("TX") =>
          st.event = applied.pre.event /\ st.heat = "" /\ st.mode = "HEADER"

\* C11 witness: a bare TM applied while the clock shows a time.
C11_Witness ==
    /\ AppliedBare("TM")
    /\ applied.pre.clock = "2:03.7"
    /\ st.clock = "2:03.7"

\* C11, the other tags reached: bare TX and bare RH on a state with an event and
\* a heat, bare SR.
C11_TextReached ==
    /\ AppliedBare("TX")
    /\ applied.pre.event = "Boys 1600m"
    /\ applied.pre.heat = "Heat 1"
    /\ st.event = "Boys 1600m"

C11_HeaderReached ==
    /\ AppliedBare("RH")
    /\ applied.pre.event = "Boys 1600m"
    /\ st.event = ""

C11_ResultReached ==
    /\ AppliedBare("SR")
    /\ st.results = << <<"", "">> >>
    /\ st.results_names = << "" >>

\* The lines a TCP peer writes: the lines of whole messages, as put on the queue.
WrittenLines ==
    UNION { {strip(l) : l \in {lines_of(data)[k] : k \in 1..Len(lines_of(data))}}
            : data \in TcpMessages }

\* The lines the receiver has framed and not yet applied.
FramedLines ==
    {q[k].line : k \in 1..Len(q)} \cup {strip(pending[k].line) : k \in 1..Len(pending)}

\* C12: in stream mode every line enqueued is a whole line some peer wrote, also
\* when its bytes arrive in two reads; no fragment of a line is enqueued.
C12_WholeLinesOnly == ~udp => FramedLines \subseteq WrittenLines

\* the connections of a list
Members(xs) == {xs[k] : k \in 1..Len(xs)}

\* the connections the listener has accepted
Accepted == (1..nconn) \ Members(backlog)

\* C13: a read error or a close on one connection removes and closes only that
\* connection: every accepted connection whose peer is still up stays in the
\* active set and open, and a step that drops a connection drops exactly the one
\* whose peer has ended.
C13_OnlyFailingClosed ==
    /\ [](\A c \in Accepted : net[c].end = "up" => c \in Members(conns) /\ c \notin closed)
    /\ [][\A c \in Members(conns) \ Members(conns') :
              /\ net[c].end # "up"
              /\ Members(conns') = Members(conns) \ {c}
              /\ closed' = closed \cup {c}]_vars

\* C13 witness: connection 1 has been closed and lines of connection 2, read
\* after that, are on their way to the queue.
C13_Witness ==
    /\ closed = {1}
    /\ 2 \in Members(conns)
    /\ net[2].end = "up"
    /\ Len(pending) >= 1

\* C13, the listener reached: it accepts connection 2 after connection 1 was closed.
C13_AcceptReached ==
    /\ closed = {1}
    /\ fpc = "accept"
    /\ Head(backlog) = 2

\* C14: after a shutdown signal the scheduler stops at its next tick boundary, and
\* by then the framer's shutdown flag is set, so that its loop ends at its next
\* poll: it takes no further input and enqueues no further line.
C14_FramerToldToStop == spc = "exit" => ~running /\ stop_evt

\* the header view of the present state
HeaderView == [view |-> "header", event |-> st.event, heat |-> st.heat, clock |-> st.clock]

\* C15 as claimed: the render step shows the header fields in HEADER mode, the
\* entry at the stored rotation index in RESULTS mode with results, and the header
\* fields in RESULTS mode without results.
C15_EntryAtStoredIndex ==
    Rendered =>
        /\ st.mode = "HEADER" => frame = HeaderView
        /\ st.mode = "RESULTS" /\ st.results # <<>> =>
              frame.view = "result" /\ frame.index = st.result_index
        /\ st.mode = "RESULTS" /\ st.results = <<>> => frame = HeaderView

\* C15 as amended: as claimed, but the entry shown in RESULTS mode is the one at
\* the stored rotation index mod the length of the list, which is inside the list.
C15_RenderView ==
    Rendered =>
        /\ st.mode = "HEADER" => frame = HeaderView
        /\ st.mode = "RESULTS" /\ st.results # <<>> =>
              LET i == st.result_index % Len(st.results) IN
              /\ i + 1 \in DOMAIN st.results
              /\ frame = [view |-> "result", index |-> i,
                          place |-> st.results[i + 1][1],
                          mark  |-> st.results[i + 1][2],
                          last  |-> st.results_names[i + 1]]
        /\ st.mode = "RESULTS" /\ st.results = <<>> => frame = HeaderView

\* C15 witness: RESULTS mode with no results: the header is drawn.
C15_Witness ==
    /\ Rendered
    /\ st.mode = "RESULTS"
    /\ st.results = <<>>
    /\ frame.view = "header"

\* C15, the other views reached: the second of two results, after one rotation
\* step; the header in HEADER mode while results are in the list.
C15_ResultReached ==
    /\ Rendered
    /\ st.mode = "RESULTS"
    /\ Len(st.results) = 2
    /\ frame.view = "result"
    /\ frame.last = "Chen"

C15_HeaderReached ==
    /\ Rendered
    /\ st.mode = "HEADER"
    /\ st.results # <<>>
    /\ frame.view = "header"

\* C16: the rotation index advances only by one, on a tick where mode is RESULTS,
\* results is not empty and a full rotation interval has passed since the timer
\* was last reset; a tick with no results showing resets the timer. So the first
\* rotation after results reappear comes a full interval after the last such tick.
C16_RotationTiming ==
    /\ [][st'.result_index > st.result_index =>
              /\ st.mode = "RESULTS"
              /\ st.results # <<>>
              /\ elapsed >= RotateTicks
              /\ st'.result_index = st.result_index + 1]_vars
    /\ [][spc = "rotate" /\ spc' = "render" /\ ~(st.mode = "RESULTS" /\ st.results # <<>>) =>
              /\ next_rotate' = RotateTicks
              /\ st' = st]_vars

\* C16 witness: the first rotation step after results reappeared has just been
\* taken; the timer had last been reset by a tick with no results showing.
C16_Witness ==
    /\ spc = "render"
    /\ lastReset = [cause |-> "rotation", prev |-> "idle"]
    /\ elapsed = 0
    /\ st.mode = "RESULTS"
    /\ st.result_index = 1

\* C16, waiting reached: results are showing, the timer was reset by an idle tick
\* less than an interval ago, and the tick takes no rotation step.
C16_WaitingReached ==
    /\ spc = "render"
    /\ lastReset.cause = "idle"
    /\ elapsed > 0
    /\ elapsed < RotateTicks
    /\ st.mode = "RESULTS"
    /\ st.results # <<>>
    /\ st.result_index = 0

\* C17: whatever the main loop is doing, a receiver holding a line can put it on
\* the queue at once; and a line on the queue stays there, in its place, until the
\* drain of the main loop takes it from the head.
C17_IngestionNeverBlocked ==
    /\ [](fpc = "put" /\ spc # "exit" => ENABLED Put)
    /\ [][/\ Len(q') >= Len(q) => SubSeq(q', 1, Len(q)) = q
          /\ Len(q') < Len(q) => spc = "drain" /\ q' = Tail(q)]_vars

\* C17 witness: while the main loop sleeps after a render, lines put since its
\* drain wait on the queue and the receiver holds another one.
C17_Witness ==
    /\ spc = "sleep"
    /\ Len(q) >= 2
    /\ fpc = "put"

\* C17, other phases reached: the same during the drain, and at the render call.
C17_DrainReached ==
    /\ spc = "drain"
    /\ Applied
    /\ Len(q) >= 1
    /\ fpc = "put"

C17_RenderReached ==
    /\ spc = "render"
    /\ Len(q) >= 1
    /\ fpc = "put"

\* C18: under every interleaving of receiver and main-loop steps, a step that
\* changes a field of the display state is the main loop applying the line it
\* takes from the queue, or the main loop's rotation step; a step of the receiver
\* changes the queue and nothing of the state.
C18_StateOwnedByMain ==
    [][st' # st =>
          \/ /\ spc = "drain"
             /\ q # <<>>
             /\ q' = Tail(q)
             /\ st' = apply_message(st, Head(q).line)
             /\ UNCHANGED <<fpc, pending, nrecv>>
          \/ /\ spc = "rotate"
             /\ spc' = "render"
             /\ st' = [st EXCEPT !.result_index = st.result_index + 1]
             /\ UNCHANGED <<fpc, pending, nrecv, q>>]_vars

\* C18 witness: the main loop has applied a line that changed the state while the
\* receiver is in the middle of queueing the lines of a datagram.
C18_Witness ==
    /\ Applied
    /\ st # applied.pre
    /\ fpc = "put"
    /\ Len(pending) >= 1
    /\ Len(q) >= 1

\* C19: a line of k + 1 written fields (k commas outside quotes) parses into
\* exactly k + 1 fields, each the content of the written field (commas inside
\* quotes kept, doubled quotes single, wrapping quotes gone) trimmed of blanks.
C19_FieldsDecoded ==
    (Applied /\ peer = "csv") =>
      /\ \E fs \in CsvFieldLists : applied.line = strip("SR" \o CsvText(fs))
      /\ \A fs \in CsvFieldLists :
            applied.line = strip("SR" \o CsvText(fs)) =>
                /\ Len(AppliedParts) = Len(fs) + 1
                /\ AppliedParts = <<"SR">> \o [k \in 1..Len(fs) |-> strip(fs[k].raw)]

\* C19 witness: a line with a quoted comma and a doubled quote has been applied.
C19_Witness ==
    /\ Applied
    /\ peer = "csv"
    /\ applied.line = "SR,\"Smith, J\", \"O\"\"Neil\""
    /\ AppliedParts = <<"SR", "Smith, J", "O\"Neil">>
    /\ st.results = << <<"Smith, J", "">> >>
    /\ st.results_names = << "O\"Neil" >>

\* C19, trimming reached: blanks inside and outside the quotes are trimmed.
C19_TrimReached ==
    /\ Applied
    /\ peer = "csv"
    /\ applied.line = "SR, \" Lee \"  ,\"\""
    /\ AppliedParts = <<"SR", "Lee", "">>

\* C20: a line that ends inside a quoted field is decoded and applied all the
\* same: the fields before it are decoded as usual, what follows the opening
\* quote (commas included) is the last field, and the TX line takes effect.
C20_OpenQuoteApplied ==
    (Applied /\ peer = "open") =>
      /\ \E fs \in OpenFieldLists, content \in OpenContents :
            applied.line = strip("TX" \o CsvText(fs) \o ",\"" \o content)
      /\ \A fs \in OpenFieldLists, content \in OpenContents :
            applied.line = strip("TX" \o CsvText(fs) \o ",\"" \o content) =>
                /\ AppliedParts = <<"TX">> \o [k \in 1..Len(fs) |-> strip(fs[k].raw)]
                                           \o <<strip(content)>>
                /\ st = [applied.pre EXCEPT !.event = AppliedParts[2],
                                            !.heat = "", !.mode = "HEADER"]

\* C20 witness: TX with an unclosed quote and a comma after it has set the event.
C20_Witness ==
    /\ Applied
    /\ peer = "open"
    /\ applied.line = "TX,\"Rain delay, stay"
    /\ AppliedParts = <<"TX", "Rain delay, stay">>
    /\ applied.pre.event = ""
    /\ st.event = "Rain delay, stay"

\* C20, a closed field before the open one reached.
C20_SecondFieldReached ==
    /\ Applied
    /\ peer = "open"
    /\ applied.line = "TX,\"Smith, J\",\" Lee, A"
    /\ AppliedParts = <<"TX", "Smith, J", "Lee, A">>
    /\ st.event = "Smith, J"

\* the positions of the main loop follow one another in this order
TickOrder ==
    { <<"loop", "drain">>, <<"loop", "exit">>, <<"drain", "rotate">>,
      <<"rotate", "render">>, <<"render", "sleep">>, <<"sleep", "loop">> }

\* The main loop is followed no further: a rotation step is due at index MaxIndex.
RotateStopped ==
    spc = "rotate" /\ rotation_due(st, 0, next_rotate) /\ st.result_index >= MaxIndex

\* C21: a tick drains until it finds the queue empty, then takes the rotation
\* step, then renders once; no line is applied between the end of the drain and
\* the render call, which draws the state as it then is; and a tick never waits
\* for a line, so every tick that starts its drain reaches its render call.
C21_TickOrder ==
    /\ [][spc' # spc => <<spc, spc'>> \in TickOrder]_vars
    /\ [][spc = "drain" /\ spc' = "rotate" => q = <<>>]_vars
    /\ [][(spc \in {"rotate", "render", "sleep"}) => napplied' = napplied]_vars
    /\ [][frame' # frame /\ frame' # NoFrame =>
              spc = "render" /\ spc' = "sleep" /\ frame = NoFrame /\ frame' = render(st)]_vars
    /\ [](Rendered => frame = render(st))
    /\ (spc = "drain") ~> (Rendered \/ RotateStopped)

\* C21 witness: a tick has applied a line, taken the rotation step and rendered
\* the result; a line that arrived after the drain waits for the next tick.
C21_Witness ==
    /\ Rendered
    /\ frame.view = "result"
    /\ napplied >= 2
    /\ rotK = 1
    /\ elapsed = 0
    /\ lastReset.cause = "rotation"
    /\ Len(q) >= 1

\* C22: an SRMODE line whose argument is missing, or is neither BEGIN nor END in
\* any letter case, changes no field of the state.
C22_MalformedSrmodeIgnored ==
    (Applied /\ AppliedTag = "SRMODE" /\ AppliedSrmode \notin {"BEGIN", "END"}) =>
        st = applied.pre

\* C22 witness: SRMODE,PAUSE applied in RESULTS mode, mid-rotation.
C22_Witness ==
    /\ Applied
    /\ applied.line = "SRMODE,PAUSE"
    /\ applied.pre.mode = "RESULTS"
    /\ applied.pre.results # <<>>
    /\ applied.pre.result_index > 0
    /\ st = applied.pre

\* C22, the missing argument reached: a bare SRMODE applied in RESULTS mode.
C22_BareReached ==
    /\ Applied
    /\ applied.line = "SRMODE"
    /\ Len(AppliedParts) = 1
    /\ applied.pre.mode = "RESULTS"
    /\ st = applied.pre

\* C23: results and results_names have the same length, and at every index the
\* place and mark of the one and the name of the other come from the same SR
\* line: the i-th of the last Len(results) SR lines applied since the last CL
\* (in page mode, line k with place k, name Runnerk and mark 4:(10 + k)).
C23_ListsAligned ==
    /\ Len(st.results) = Len(st.results_names)
    /\ Len(st.results) <= Len(hist)
    /\ \A i \in 1..Len(st.results) :
          LET sr == hist[Len(hist) - Len(st.results) + i] IN
          /\ st.results[i] = <<sr[1], sr[3]>>
          /\ st.results_names[i] = sr[2]
    /\ peer = "page" =>
          \A i \in 1..Len(st.results) :
             LET k == napplied - Len(st.results) + i IN
             /\ st.results[i] = <<ToString(k), "4:" \o ToString(10 + k)>>
             /\ st.results_names[i] = "Runner" \o ToString(k)

\* C23 witness: the 17th result of a page has evicted the first from both lists.
C23_Witness ==
    /\ peer = "page"
    /\ napplied = ResultsCap + 1
    /\ Len(st.results) = ResultsCap
    /\ Len(st.results_names) = ResultsCap
    /\ st.results[1] = <<"2", "4:12">>
    /\ st.results_names[1] = "Runner2"
    /\ st.results_names[ResultsCap] = "Runner17"

\* C23, CL reached: CL has emptied both lists.
C23_ClearReached ==
    /\ Applied
    /\ AppliedTag = "CL"
    /\ Len(applied.pre.results) = 2
    /\ Len(applied.pre.results_names) = 2
    /\ st.results = <<>>
    /\ st.results_names = <<>>

\* C24: RH, TM and TX leave the results lists and the rotation index as they
\* were, and a step that empties a results list that held entries is the main
\* loop applying a CL line.
C24_ResultsKept ==
    /\ []((Applied /\ AppliedTag \in {"RH", "TM", "TX"}) =>
             /\ st.results = applied.pre.results
             /\ st.results_names = applied.pre.results_names
             /\ st.result_index = applied.pre.result_index)
    /\ [][st.results # <<>> /\ st'.results = <<>> =>
             /\ spc = "drain"
             /\ q # <<>>
             /\ upper(parse_csv_line(Head(q).line)[1]) = "CL"]_vars

\* C24 witness: a new RH header applied mid-rotation: the entries of the event
\* before and the rotation index are still there.
C24_Witness ==
    /\ Applied
    /\ AppliedTag = "RH"
    /\ Len(applied.pre.results) = 2
    /\ applied.pre.result_index > 0
    /\ st.results = applied.pre.results
    /\ st.results_names = <<"Riley", "Chen">>
    /\ st.result_index = applied.pre.result_index
    /\ st.mode = "HEADER"

\* C24, TM, TX and CL reached: the same for TM and TX; CL empties the list.
C24_ClockReached ==
    /\ Applied
    /\ AppliedTag = "TM"
    /\ Len(applied.pre.results) = 2
    /\ applied.pre.result_index > 0
    /\ st.results = applied.pre.results

C24_TextReached ==
    /\ Applied
    /\ AppliedTag = "TX"
    /\ Len(applied.pre.results) = 2
    /\ applied.pre.result_index > 0
    /\ st.results = applied.pre.results

C24_ClearReached ==
    /\ Applied
    /\ AppliedTag = "CL"
    /\ applied.pre.results # <<>>
    /\ applied.pre.mode = "RESULTS"
    /\ st.results = <<>>

\* the loop of run_clock is running
InClockLoop == cpc \in {"key", "tick"}

\* while the clock is not running its value is the one it stopped at or was
\* reset to
C25_FrozenWhilePaused == InClockLoop /\ ~crunning => cur = pausedAt /\ shown = fmt_hhmmss(cur)

\* a countdown is never below 0, on the clock or on the sign
C25_CountdownFloor ==
    InClockLoop /\ direction = DIR_DOWN => cur >= 0 /\ shown = fmt_hhmmss(cur)

\* the clock has counted no more time than it has been running
C25_OnlyRunningTimeCounted == InClockLoop => ran >= 0

\* C25: in the manual clock (run_clock, up or down) the value is frozen while
\* the clock is not running and changes only by reset, counting after Enter
\* goes on from the value shown at the pause with no paused time added or
\* subtracted, and a countdown is never below 0.
C25_PausedTimeNotCounted ==
    /\ C25_FrozenWhilePaused
    /\ C25_CountdownFloor
    /\ C25_OnlyRunningTimeCounted


====
